---- MODULE Spec2Model ----
(***************************************************************************)
(* Model of the join decision engine of elastic-etcd: join.Join            *)
(* (src/join/join.go) and MemberAdder.Add (src/join/add.go), run against   *)
(* an etcd cluster seen through the members API and a discovery roster.    *)
(*                                                                         *)
(* A peer URL is a token; a named peer URL "name=url" is the pair          *)
(* <<name, url>>.  Health probes answer from a snapshot of the network.    *)
(* The Existence Heuristic, the search for dead members of one Add         *)
(* invocation and every quorum guard each take a snapshot of their own, so *)
(* health may change between them.  Every members-API call and every       *)
(* discovery read may fail.  Spec is one run of Join, SpecAdd a sequence   *)
(* of Add invocations against one cluster, SpecHeuristic one call of the   *)
(* heuristic with its goroutines interleaved.                              *)
(***************************************************************************)
EXTENDS Integers, Sequences, FiniteSets, TLC

\* ---------------------------------------------------------------- bounds
MaxMembers == 3      \* members of the cluster before the first run
MaxRoster  == 3      \* children under the discovery prefix
MaxSize    == 3      \* largest target cluster size
MaxRuns    == 2      \* consecutive runs of the tool against one cluster
MaxRemoves == 2      \* remove calls answered before the context's deadline

\* ------------------------------------------------------ program constants
PreparedStrategy == "prepared"
PruneStrategy    == "prune"
ReplaceStrategy  == "replace"
AddStrategy      == "add"
maxInt           == 2147483647

Strategies == {PreparedStrategy, PruneStrategy, ReplaceStrategy, AddStrategy}

\* ------------------------------------------------------------ environment
\* Peer URLs of daemons that may answer probes, the node's own advertised
\* peer URLs (its daemon is not running while the tool runs) and one URL
\* that does not parse.
HostURLs == {"pa", "pb", "pc"}
BadURL   == "bad"

\* What a host answers: "dead" fails the peer probe and the leader lookup;
\* "inactive" is alive and reports no leader; "error" is alive and its
\* leader lookup errors; "healthy" is alive and reports a leader.
Status    == {"dead", "inactive", "error", "healthy"}
Snapshots == [HostURLs -> Status]

\* The snapshots that differ on the URLs in R only: no probe of another URL
\* is made, so its answer is left at "dead".
SnapshotsOver(R) ==
    { [u \in HostURLs |-> IF u \in R THEN g[u] ELSE "dead"] :
        g \in [R \cap HostURLs -> Status] }

Probe(h, u) == IF u \in DOMAIN h THEN h[u] ELSE "dead"

Member(id, name, peers, clients) ==
    [ID |-> id, Name |-> name, PeerURLs |-> peers, ClientURLs |-> clients]

\* The member entries a cluster may hold before the first run: started
\* members with one peer URL, a started member without peer URLs, a started
\* member whose peer URL does not parse, an unstarted member registered
\* with the node's second advertised URL and an unstarted member without
\* peer URLs.  The members API lists members in ID order.
MemberCatalogue ==
    << Member(1, "a", <<"pa">>, <<"pa">>),
       Member(2, "b", <<"pb">>, <<"pb">>),
       Member(3, "c", <<"pc">>, <<"pc">>),
       Member(4, "z", <<>>, <<>>),
       Member(5, "x", <<BadURL>>, <<>>),
       Member(6, "", <<"n2">>, <<>>),
       Member(7, "", <<>>, <<>>) >>

SortedSeq(S) ==
    CHOOSE s \in [1..Cardinality(S) -> S] :
        \A i, j \in 1..Cardinality(S) : i < j => s[i] < s[j]

InitialClusters ==
    { [i \in 1..Cardinality(S) |-> MemberCatalogue[SortedSeq(S)[i]]] :
        S \in {T \in SUBSET (DOMAIN MemberCatalogue) :
                  1 <= Cardinality(T) /\ Cardinality(T) <= MaxMembers} }

\* The clusters of the runs of Join: Join calls the Adder only after it has
\* found a running cluster, here one with the started members a and b.
JoinClusters ==
    { c \in InitialClusters : {1, 2} \subseteq {c[i].ID : i \in DOMAIN c} }

\* Children of the discovery prefix: valid "name=peerURL" values, a value
\* that does not parse, and a child without a value.
ChildCatalogue ==
    << [kind |-> "valid", name |-> "a", url |-> "pa"],
       [kind |-> "valid", name |-> "b", url |-> "pb"],
       [kind |-> "invalid", name |-> "", url |-> BadURL],
       [kind |-> "novalue", name |-> "", url |-> ""] >>

Rosters ==
    { [i \in 1..Cardinality(S) |-> ChildCatalogue[SortedSeq(S)[i]]] :
        S \in {T \in SUBSET (DOMAIN ChildCatalogue) : Cardinality(T) <= MaxRoster} }

\* Values stored under /_config/size: decimal integers and one value that
\* is not a number.
SizeValues ==
    {[digits |-> TRUE, n |-> k] : k \in 1..MaxSize} \cup {[digits |-> FALSE, n |-> 0]}

ClusterSizeArgs == {-1} \cup (0..MaxSize)
TargetSizes     == 1..MaxSize
AdvertisedChoices == {<<"n1">>, <<"n1", "n2">>}
OwnName == "n"

\* ---------------------------------------------------------------- helpers
Range(s) == {s[i] : i \in DOMAIN s}

Min(S) == CHOOSE x \in S : \A y \in S : x <= y

RECURSIVE Flatten(_)
Flatten(ss) == IF ss = <<>> THEN <<>> ELSE Head(ss) \o Flatten(Tail(ss))

\* fmt.Sprintf("%s=%s", name, u) for every u
Named(name, urls) == [i \in DOMAIN urls |-> <<name, urls[i]>>]

\* strconv.ParseInt(v, 10, 16) with the error dropped: 0 on a syntax
\* error, the nearest 16-bit value on a range error.
ParseInt16(v) ==
    IF ~v.digits THEN 0
    ELSE IF v.n > 32767 THEN 32767
    ELSE IF v.n < -32768 THEN -32768
    ELSE v.n

\* NewDiscoveryNode("name=peerURL", clientPort): fails on an empty name or
\* an unparseable URL; the client URL is the peer URL's host with the
\* client port.
NewDiscoveryNode(name, u) ==
    IF name = "" \/ u = BadURL \/ u = ""
    THEN [ok |-> FALSE, Member |-> Member(0, "", <<>>, <<>>)]
    ELSE [ok |-> TRUE, Member |-> Member(0, name, <<u>>, <<u>>)]

\* ------------------------------------------------------------ Health Prober
alive(h, m) == \E i \in DOMAIN m.PeerURLs : Probe(h, m.PeerURLs[i]) # "dead"

active(h, m) ==
    IF m.ClientURLs = <<>> THEN [isActive |-> FALSE, err |-> TRUE]
    ELSE IF \E i \in DOMAIN m.ClientURLs : Probe(h, m.ClientURLs[i]) = "healthy"
         THEN [isActive |-> TRUE, err |-> FALSE]
    ELSE IF \E i \in DOMAIN m.ClientURLs : Probe(h, m.ClientURLs[i]) = "inactive"
         THEN [isActive |-> FALSE, err |-> FALSE]
    ELSE [isActive |-> FALSE, err |-> TRUE]

\* -------------------------------------------------------- Existence Heuristic
\* The verdict is a Go slice: nil, or a (possibly empty) list.
NilNodes == [isNil |-> TRUE, list |-> <<>>]
Nodes(l) == [isNil |-> FALSE, list |-> l]

\* What one probe goroutine decides for its node.
ProbeAppends(h, n) ==
    IF ~alive(h, n) THEN FALSE
    ELSE active(h, n).isActive

\* The accumulator after wg.Wait(): the healthy nodes in the order in which
\* their goroutines took the lock.
ActiveOrders(h, roster) ==
    LET H == {i \in DOMAIN roster : ProbeAppends(h, roster[i])}
    IN  { [k \in 1..Cardinality(H) |-> roster[f[k]]] :
            f \in {g \in [1..Cardinality(H) -> H] :
                     \A x, y \in 1..Cardinality(H) : x # y => g[x] # g[y]} }

Quorum(size) == (size \div 2) + 1

\* every roster that reaches the quorum is reported as a list
clusterExistingHeuristic_ListAtQuorum(size, roster, act) ==
    IF Len(roster) < Quorum(size) THEN NilNodes
    ELSE Nodes(act)

\* the case of the full roster dropped
clusterExistingHeuristic_NoFullCase(size, roster, act) ==
    IF Len(roster) < Quorum(size) THEN NilNodes
    ELSE IF Len(act) > 0 THEN Nodes(act)
    ELSE NilNodes

\* The classification after wg.Wait().  Join builds the roster with make(),
\* so the nil test of join.go:91 never holds; an empty roster is below
\* every quorum.
clusterExistingHeuristic(size, roster, act) ==
    IF Len(roster) < Quorum(size) THEN NilNodes
    ELSE IF Len(roster) = size THEN Nodes(act)
    ELSE IF Len(act) > 0 THEN Nodes(act)
    ELSE NilNodes

\* ---------------------------------------------------------------- Member Adder
\* equality of the URL sets in place of containment
findUnstartedMember_EqualURLs(members, urls) ==
    LET S == {i \in DOMAIN members :
                /\ members[i].Name = ""
                /\ Range(members[i].PeerURLs) = Range(urls)}
    IN  IF S = {} THEN 0 ELSE Min(S)

\* Index of the first unstarted member whose peer URLs are a subset of
\* urls, 0 for nil.
findUnstartedMember(members, urls) ==
    LET S == {i \in DOMAIN members :
                /\ members[i].Name = ""
                /\ \A k \in DOMAIN members[i].PeerURLs :
                       members[i].PeerURLs[k] \in Range(urls)}
    IN  IF S = {} THEN 0 ELSE Min(S)

\* The inner loop of removeDeadMember over the peer URLs of one member,
\* from URL k on: TRUE iff the loop runs to its end (the member is dead).
RECURSIVE ScanPeerURLs(_, _, _)
ScanPeerURLs(h, m, k) ==
    IF k > Len(m.PeerURLs) THEN TRUE
    ELSE LET n == NewDiscoveryNode(m.Name, m.PeerURLs[k])
         IN  IF ~n.ok THEN FALSE
             ELSE IF alive(h, n.Member)
                  THEN LET a == active(h, n.Member)
                       IN  IF a.err THEN FALSE
                           ELSE IF a.isActive THEN FALSE
                           ELSE ScanPeerURLs(h, m, k + 1)
                  ELSE ScanPeerURLs(h, m, k + 1)

\* a peer URL that does not parse counts as a dead peer URL
IsDead_ParseFailureIsDead(h, m) ==
    \A k \in DOMAIN m.PeerURLs :
        LET n == NewDiscoveryNode(m.Name, m.PeerURLs[k])
        IN  n.ok => ~(alive(h, n.Member) /\ (active(h, n.Member).isActive
                                              \/ active(h, n.Member).err))

\* add.go:84-109: whether the search loop selects member m
IsDead(h, m) == Len(m.PeerURLs) = 0 \/ ScanPeerURLs(h, m, 1)

\* Index of the member removeDeadMember selects, 0 for none.
SelectDead(h, members) ==
    LET S == {i \in DOMAIN members : IsDead(h, members[i])}
    IN  IF S = {} THEN 0 ELSE Min(S)

\* protectQuorum's counters and verdict.
StartedMembers(ms) == Cardinality({i \in DOMAIN ms : ms[i].Name # ""})

IsHealthy(h, m) ==
    alive(h, m) /\ active(h, m).isActive /\ ~active(h, m).err

HealthyMembers(h, ms) == Cardinality({i \in DOMAIN ms : IsHealthy(h, ms[i])})

\* the quorum of the present members, the new member left out
FutureQuorum_WithoutNewMember(startedMembers) == (startedMembers \div 2) + 1

FutureQuorum(startedMembers) == ((startedMembers + 1) \div 2) + 1

\* the comparison off by one
QuorumProtected_OffByOne(healthyMembers, futureQuorum) ==
    ~(healthyMembers + 1 < futureQuorum)

QuorumProtected(healthyMembers, futureQuorum) == ~(healthyMembers < futureQuorum)


\* ---------------------------------------------------------- Join Orchestrator
\* the strategy test dropped
UseAdder_FreshOnly(s, f) == f

UseAdder(s, f) == s # PreparedStrategy /\ f

NoConfig ==
    [InitialCluster |-> <<>>, InitialClusterState |-> "", AdvertisePeerURLs |-> <<>>,
     Discovery |-> "", Name |-> ""]

EtcdConfig(initialCluster, state, advertise, discovery, name) ==
    [InitialCluster |-> initialCluster, InitialClusterState |-> state,
     AdvertisePeerURLs |-> advertise, Discovery |-> discovery, Name |-> name]

DiscoveryURL == "disc"

\* n.NamedPeerURLs() of every active node, in order
ActiveNamedURLs(act) ==
    Flatten([i \in DOMAIN act |-> Named(act[i].Name, act[i].PeerURLs)])

\* -------------------------------------------------------------------- state
VARIABLES
    strategy,            \* Join's inputs
    fresh,
    clusterSizeArg,
    advertisedURLs,      \* strings.Split(initialAdvertisePeerURLs, ",")
    cluster,             \* the membership held by the etcd cluster
    nextID,              \* ID the cluster gives to the next added member
    run,                 \* number of the current run of the tool
    pc,                  \* position of the run inside Join / Add
    nodes,               \* Join: the parsed roster
    clusterSize,         \* Join: the target size
    activeNodes,         \* Join: the heuristic's verdict
    ms,                  \* Add: the membership listed first
    unstarted,           \* Add: index in ms of the recycled member, 0 for nil
    initialURLs,         \* Join: the peer URLs Add returned
    sel,                 \* the last dead-member selection of this run
    prevAdded,           \* the previous run added this node to the cluster
    guard,               \* the last quorum guard observation of this run
    calls,               \* every members-API call issued, in order
    result,              \* "none", "config", "error" or "panic"
    errKind,
    config,
    gpc,                 \* heuristic: position of the goroutine of each node
    probeOK,             \* heuristic: the goroutine found its node alive and active
    lock,                \* heuristic: holder of the mutex, 0 when unlocked
    acc,                 \* heuristic: the accumulator activeNodes (join.go:99)
    tmp,                 \* heuristic: the slice each append has read
    wg                   \* heuristic: counter of the WaitGroup

vars == <<strategy, fresh, clusterSizeArg, advertisedURLs, cluster, nextID, run, pc,
          nodes, clusterSize, activeNodes, ms, unstarted, initialURLs, sel, prevAdded,
          guard, calls,
          result, errKind, config, gpc, probeOK, lock, acc, tmp, wg>>

inputs == <<strategy, fresh, clusterSizeArg, advertisedURLs, prevAdded>>

\* The state of the heuristic's goroutines; the runs of Join take the
\* heuristic in one step (Heuristic) and leave it untouched.
probes == <<gpc, probeOK, lock, acc, tmp, wg>>

NoProbes ==
    /\ gpc = <<>>
    /\ probeOK = <<>>
    /\ lock = 0
    /\ acc = <<>>
    /\ tmp = <<>>
    /\ wg = 0

NoSel   == [done |-> FALSE, h |-> [u \in HostURLs |-> "dead"], idx |-> 0]

\* The URLs that probes of these members contact.
URLsOf(members) ==
    UNION {Range(members[i].PeerURLs) \cup Range(members[i].ClientURLs) : i \in DOMAIN members}

NoGuard == [done |-> FALSE, members |-> 0, started |-> 0, healthy |-> 0,
            futureQuorum |-> 0, passed |-> FALSE]

\* One members-API call: the function that issues it, the operation, its
\* argument and whether the API answered without an error.
Call(by, op, id, url, ok) == [by |-> by, op |-> op, id |-> id, url |-> url, ok |-> ok]

Init ==
    /\ strategy \in Strategies
    /\ fresh \in BOOLEAN
    /\ clusterSizeArg \in ClusterSizeArgs
    /\ advertisedURLs \in AdvertisedChoices
    /\ cluster \in JoinClusters
    /\ nextID = Len(MemberCatalogue) + 1
    /\ run = 1
    /\ prevAdded = FALSE
    /\ pc = "start"
    /\ nodes = <<>>
    /\ clusterSize = clusterSizeArg
    /\ activeNodes = NilNodes
    /\ ms = <<>>
    /\ unstarted = 0
    /\ initialURLs = <<>>
    /\ sel = NoSel
    /\ guard = NoGuard
    /\ calls = <<>>
    /\ result = "none"
    /\ errKind = ""
    /\ config = NoConfig
    /\ NoProbes

\* Join returns (nil, err)
Fail(kind) ==
    /\ pc' = "done"
    /\ result' = "error"
    /\ errKind' = kind
    /\ config' = NoConfig

\* Join returns (&EtcdConfig{...}, nil)
Emit(c) ==
    /\ pc' = "done"
    /\ result' = "config"
    /\ errKind' = ""
    /\ config' = c

\* join.go:242-247, the config of a node that joins a running cluster
ExistingConfig(initialNamedURLs) ==
    EtcdConfig(initialNamedURLs \o ActiveNamedURLs(activeNodes.list), "existing",
               advertisedURLs, "", OwnName)

\* join.go:152-168: read the discovery prefix and parse the roster
FetchRosterFails ==
    /\ pc = "start"
    /\ Fail("DiscoveryUnavailable")
    /\ UNCHANGED <<inputs, probes, cluster, nextID, run, nodes, clusterSize, activeNodes,
                   ms, unstarted, initialURLs, sel, guard, calls>>

FetchRosterPanics ==
    /\ pc = "start"
    /\ \E r \in Rosters :
         \E i \in DOMAIN r : r[i].kind = "novalue"
    /\ pc' = "done"
    /\ result' = "panic"
    /\ UNCHANGED <<inputs, probes, cluster, nextID, run, nodes, clusterSize, activeNodes,
                   ms, unstarted, initialURLs, sel, guard, calls, errKind, config>>

FetchRoster ==
    /\ pc = "start"
    /\ \E r \in Rosters :
         /\ \A i \in DOMAIN r : r[i].kind # "novalue"
         /\ LET parsed == [i \in DOMAIN r |-> NewDiscoveryNode(r[i].name, r[i].url)]
                good   == SelectSeq(parsed, LAMBDA n : n.ok)
            IN  nodes' = [i \in DOMAIN good |-> good[i].Member]
    /\ pc' = "size"
    /\ UNCHANGED <<inputs, probes, cluster, nextID, run, clusterSize, activeNodes,
                   ms, unstarted, initialURLs, sel, guard, calls, result, errKind, config>>

\* join.go:170-182: the target size
DetermineSizeFails ==
    /\ pc = "size"
    /\ clusterSize < 0
    /\ Fail("DiscoveryUnavailable")
    /\ UNCHANGED <<inputs, probes, cluster, nextID, run, nodes, clusterSize, activeNodes,
                   ms, unstarted, initialURLs, sel, guard, calls>>

\* the size 0 is taken as it is
DetermineSize_ZeroKept ==
    /\ pc = "size"
    /\ IF clusterSize < 0
       THEN \E v \in SizeValues : clusterSize' = ParseInt16(v)
       ELSE clusterSize' = clusterSize
    /\ pc' = "heuristic"
    /\ UNCHANGED <<inputs, probes, cluster, nextID, run, nodes, activeNodes,
                   ms, unstarted, initialURLs, sel, guard, calls, result, errKind, config>>

DetermineSize ==
    /\ pc = "size"
    /\ IF clusterSize < 0
       THEN \E v \in SizeValues : clusterSize' = ParseInt16(v)
       ELSE IF clusterSize = 0
            THEN clusterSize' = maxInt
            ELSE clusterSize' = clusterSize
    /\ pc' = "heuristic"
    /\ UNCHANGED <<inputs, probes, cluster, nextID, run, nodes, activeNodes,
                   ms, unstarted, initialURLs, sel, guard, calls, result, errKind, config>>

\* join.go:184 and 85-141: probe every roster node, then classify
Heuristic ==
    /\ pc = "heuristic"
    /\ \E h \in SnapshotsOver(URLsOf(nodes)) :
         \E act \in ActiveOrders(h, nodes) :
            activeNodes' = clusterExistingHeuristic(clusterSize, nodes, act)
    /\ pc' = "dispatch"
    /\ UNCHANGED <<inputs, probes, cluster, nextID, run, nodes, clusterSize,
                   ms, unstarted, initialURLs, sel, guard, calls, result, errKind, config>>

\* the fresh test dropped: a dormant cluster is always resumed
JoinDormant_IgnoresFresh ==
    /\ pc = "dispatch"
    /\ ~activeNodes.isNil /\ Len(activeNodes.list) = 0
    /\ Emit(EtcdConfig(<<>>, "existing", advertisedURLs, "", OwnName))
    /\ UNCHANGED <<inputs, probes, cluster, nextID, run, nodes, clusterSize, activeNodes,
                   ms, unstarted, initialURLs, sel, guard, calls>>

\* join.go:189-201: the cluster is down
JoinDormant ==
    /\ pc = "dispatch"
    /\ ~activeNodes.isNil /\ Len(activeNodes.list) = 0
    /\ IF fresh
       THEN Fail("ClusterDownNotJoinable")
       ELSE Emit(EtcdConfig(<<>>, "existing", advertisedURLs, "", OwnName))
    /\ UNCHANGED <<inputs, probes, cluster, nextID, run, nodes, clusterSize, activeNodes,
                   ms, unstarted, initialURLs, sel, guard, calls>>

\* join.go:248-257: bootstrap a new cluster
JoinNew ==
    /\ pc = "dispatch"
    /\ activeNodes.isNil
    /\ Emit(EtcdConfig(<<>>, "new", advertisedURLs, DiscoveryURL, OwnName))
    /\ UNCHANGED <<inputs, probes, cluster, nextID, run, nodes, clusterSize, activeNodes,
                   ms, unstarted, initialURLs, sel, guard, calls>>

\* join.go:202-215 and 238-247: join a running cluster without the Adder
JoinWithoutAdd ==
    /\ pc = "dispatch"
    /\ ~activeNodes.isNil /\ Len(activeNodes.list) # 0
    /\ ~UseAdder(strategy, fresh)
    /\ Emit(ExistingConfig(<<Named(OwnName, advertisedURLs)[1]>>))
    /\ UNCHANGED <<inputs, probes, cluster, nextID, run, nodes, clusterSize, activeNodes,
                   ms, unstarted, initialURLs, sel, guard, calls>>

\* join.go:216-229: construct the Adder and call Add.  The members-API
\* client is built from the client URLs of the active nodes, of which there
\* is at least one, and the roster is not read again.
JoinCallsAdd ==
    /\ pc = "dispatch"
    /\ ~activeNodes.isNil /\ Len(activeNodes.list) # 0
    /\ UseAdder(strategy, fresh)
    /\ pc' = "add_list"
    /\ nodes' = <<>>
    /\ UNCHANGED <<inputs, probes, cluster, nextID, run, clusterSize, activeNodes,
                   ms, unstarted, initialURLs, sel, guard, calls, result, errKind, config>>


\* ------------------------------------------------------------- MemberAdder.Add
IDs(members) == {members[i].ID : i \in DOMAIN members}

\* add.go:161-176: list the members and look for an unstarted entry
AddListFails ==
    /\ pc = "add_list"
    /\ calls' = Append(calls, Call("Add", "list", 0, "", FALSE))
    /\ Fail("JoinFailed")
    /\ UNCHANGED <<inputs, probes, cluster, nextID, run, nodes, clusterSize, activeNodes,
                   ms, unstarted, initialURLs, sel, guard>>

AddList ==
    /\ pc = "add_list"
    /\ calls' = Append(calls, Call("Add", "list", 0, "", TRUE))
    /\ ms' = cluster
    /\ unstarted' = findUnstartedMember(cluster, advertisedURLs)
    /\ pc' = IF unstarted' # 0 THEN "guard" ELSE "strategy"
    /\ UNCHANGED <<inputs, probes, cluster, nextID, run, nodes, clusterSize, activeNodes,
                   initialURLs, sel, guard, result, errKind, config>>

\* replace runs the loop of prune
StrategyCase_ReplaceLoops(s) ==
    IF s = ReplaceStrategy THEN "prune"
    ELSE IF s = PruneStrategy THEN "prune"
    ELSE "none"

\* add.go:178-202: the case of the strategy switch that runs
StrategyCase(s) ==
    IF s = ReplaceStrategy THEN "replace"
    ELSE IF s = PruneStrategy THEN "prune"
    ELSE "none"

\* the guard's error dropped
AfterGuard_ErrorIgnored(passed, found) ==
    IF found THEN "return" ELSE "add"

\* add.go:171-176 and 204-212: what Add does after protectQuorum returned,
\* found telling whether an unstarted member is recycled
AfterGuard(passed, found) ==
    IF ~passed THEN "abort"
    ELSE IF found THEN "return"
    ELSE "add"

\* add.go:178-202, strategies without a case in the switch
NoRemoval ==
    /\ pc = "strategy"
    /\ StrategyCase(strategy) = "none"
    /\ pc' = "guard"
    /\ UNCHANGED <<inputs, probes, cluster, nextID, run, nodes, clusterSize, activeNodes,
                   ms, unstarted, initialURLs, sel, guard, calls, result, errKind, config>>

\* add.go:78-123: what removeDeadMember returns for the selection i when
\* the members API answers the remove call with apiOK
removeDeadMember(i, apiOK) ==
    IF i = 0 THEN [removed |-> 0, err |-> TRUE, kind |-> "NoDeadMember"]
    ELSE IF ~apiOK THEN [removed |-> 0, err |-> TRUE, kind |-> "JoinFailed"]
    ELSE [removed |-> i, err |-> FALSE, kind |-> ""]

\* add.go:179-190: what Add does with removeDeadMember's result under replace
ReplaceOutcome(r, listed, targetSize) ==
    IF r.err THEN r.kind
    ELSE IF r.removed = 0
         THEN IF listed >= targetSize THEN "ClusterFullNoDead" ELSE "proceed"
         ELSE "proceed"

\* add.go:191-202: whether the prune loop goes round again
PruneContinues(r) ==
    IF r.err THEN FALSE
    ELSE IF r.removed = 0 THEN FALSE
    ELSE TRUE

\* The snapshots one call of removeDeadMember may probe: the network does
\* not change while one Add invocation searches for dead members.
SelectionSnapshots ==
    IF sel.done THEN {sel.h} ELSE SnapshotsOver(URLsOf(ms))

\* The members the search loop has probed when it selects member i.
Probed(i) == SubSeq(ms, 1, IF i = 0 THEN Len(ms) ELSE i)

NumRemoves == Cardinality({k \in DOMAIN calls : calls[k].op = "remove"})

\* Answers of the members API to a remove call: an error, or success (the
\* client also reports success for a member that is already gone).  Every
\* call after the deadline of ctx (add.go:159) is an error.
RemoveAnswers == IF NumRemoves >= MaxRemoves THEN {FALSE} ELSE BOOLEAN

\* One call of removeDeadMember(ctx, ms): select, then remove through the
\* members API.
RemoveDead(h, apiOK) ==
    LET i == SelectDead(h, ms)
    IN  /\ sel' = [done |-> TRUE,
                   h |-> [u \in HostURLs |-> IF u \in URLsOf(Probed(i)) THEN h[u] ELSE "dead"],
                   idx |-> i]
        /\ calls' = IF i = 0 THEN calls
                    ELSE Append(calls, Call("removeDeadMember", "remove", ms[i].ID, "", apiOK))
        /\ cluster' = IF i # 0 /\ apiOK
                      THEN SelectSeq(cluster, LAMBDA m : m.ID # ms[i].ID)
                      ELSE cluster

RemoveResult(h, apiOK) == removeDeadMember(SelectDead(h, ms), apiOK)

ReplaceStep ==
    /\ pc = "strategy"
    /\ StrategyCase(strategy) = "replace"
    /\ \E h \in SelectionSnapshots, apiOK \in RemoveAnswers :
         /\ RemoveDead(h, apiOK)
         /\ LET o == ReplaceOutcome(RemoveResult(h, apiOK), Len(ms), clusterSize)
            IN  IF o = "proceed"
                THEN pc' = "guard" /\ UNCHANGED <<result, errKind, config>>
                ELSE Fail(o)
    /\ UNCHANGED <<inputs, probes, nextID, run, nodes, clusterSize, activeNodes,
                   ms, unstarted, initialURLs, guard>>

PruneStep ==
    /\ pc = "strategy"
    /\ StrategyCase(strategy) = "prune"
    /\ \E h \in SelectionSnapshots, apiOK \in RemoveAnswers :
         /\ RemoveDead(h, apiOK)
         /\ pc' = IF PruneContinues(RemoveResult(h, apiOK)) THEN "strategy" ELSE "guard"
    /\ UNCHANGED <<inputs, probes, nextID, run, nodes, clusterSize, activeNodes,
                   ms, unstarted, initialURLs, guard, result, errKind, config>>

\* add.go:125-152: protectQuorum; add.go:171-176 and 204-206: its callers
GuardListFails ==
    /\ pc = "guard"
    /\ calls' = Append(calls, Call("protectQuorum", "list", 0, "", FALSE))
    /\ Fail("JoinFailed")
    /\ UNCHANGED <<inputs, probes, cluster, nextID, run, nodes, clusterSize, activeNodes,
                   ms, unstarted, initialURLs, sel, guard>>

protectQuorum(h, listed) ==
    LET startedMembers == StartedMembers(listed)
        healthyMembers == HealthyMembers(h, listed)
        futureQuorum   == FutureQuorum(startedMembers)
    IN  [done |-> TRUE, members |-> Len(listed), started |-> startedMembers,
         healthy |-> healthyMembers, futureQuorum |-> futureQuorum,
         passed |-> QuorumProtected(healthyMembers, futureQuorum)]

Guard ==
    /\ pc = "guard"
    /\ calls' = Append(calls, Call("protectQuorum", "list", 0, "", TRUE))
    /\ \E h \in SnapshotsOver(URLsOf(cluster)) : guard' = protectQuorum(h, cluster)
    /\ LET next == AfterGuard(guard'.passed, unstarted # 0)
       IN  IF next = "abort"
           THEN Fail("QuorumAtRisk") /\ UNCHANGED initialURLs
           ELSE IF next = "return"
                THEN /\ initialURLs' = ms[unstarted].PeerURLs
                     /\ Emit(ExistingConfig(Named(OwnName, initialURLs')))
                ELSE /\ pc' = "add_call"
                     /\ UNCHANGED <<initialURLs, result, errKind, config>>
    /\ UNCHANGED <<inputs, probes, cluster, nextID, run, nodes, clusterSize, activeNodes,
                   ms, unstarted, sel>>

\* add.go:208-218 and join.go:229-247: add the first peer URL, emit the config
AddCallFails ==
    /\ pc = "add_call"
    /\ calls' = Append(calls, Call("Add", "add", 0, advertisedURLs[1], FALSE))
    /\ Fail("JoinFailed")
    /\ UNCHANGED <<inputs, probes, cluster, nextID, run, nodes, clusterSize, activeNodes,
                   ms, unstarted, initialURLs, sel, guard>>

AddCall ==
    /\ pc = "add_call"
    /\ calls' = Append(calls, Call("Add", "add", 0, advertisedURLs[1], TRUE))
    /\ cluster' = Append(cluster, Member(nextID, "", <<advertisedURLs[1]>>, <<>>))
    /\ nextID' = nextID + 1
    /\ initialURLs' = <<advertisedURLs[1]>>
    /\ Emit(ExistingConfig(Named(OwnName, initialURLs')))
    /\ UNCHANGED <<inputs, probes, run, nodes, clusterSize, activeNodes,
                   ms, unstarted, sel, guard>>

\* The tool is run again, with the same arguments, against the same cluster,
\* and Join calls Add again.
AddAgain ==
    /\ pc = "done"
    /\ run < MaxRuns
    /\ run' = run + 1
    /\ pc' = "add_list"
    /\ prevAdded' = (\E i \in DOMAIN calls : calls[i].op = "add" /\ calls[i].ok)
    /\ calls' = <<>>
    /\ ms' = <<>>
    /\ unstarted' = 0
    /\ initialURLs' = <<>>
    /\ sel' = NoSel
    /\ guard' = NoGuard
    /\ result' = "none"
    /\ errKind' = ""
    /\ config' = NoConfig
    /\ UNCHANGED <<strategy, fresh, clusterSizeArg, advertisedURLs, cluster, nextID,
                   nodes, clusterSize, activeNodes, probes>>

Next ==
    \/ FetchRosterFails
    \/ FetchRosterPanics
    \/ FetchRoster
    \/ DetermineSizeFails
    \/ DetermineSize
    \/ Heuristic
    \/ JoinDormant
    \/ JoinNew
    \/ JoinWithoutAdd
    \/ JoinCallsAdd
    \/ AddListFails
    \/ AddList
    \/ NoRemoval
    \/ ReplaceStep
    \/ PruneStep
    \/ GuardListFails
    \/ Guard
    \/ AddCallFails
    \/ AddCall

\* One run of Join against a cluster.
Spec == Init /\ [][Next]_vars

\* One run of Join in which every discovery read, probe and members-API
\* call returns: a step that can be taken is eventually taken.
FairSpec == Init /\ [][Next]_vars /\ WF_vars(Next)

\* Join has found a running cluster and calls Add (join.go:219-229): the
\* strategy is not prepared and the node is fresh.
RunningVerdicts == {Nodes(<<NewDiscoveryNode("a", "pa").Member>>)}

InitAdd ==
    /\ strategy \in Strategies \ {PreparedStrategy}
    /\ fresh = TRUE
    /\ clusterSizeArg \in TargetSizes
    /\ advertisedURLs \in AdvertisedChoices
    /\ cluster \in InitialClusters
    /\ nextID = Len(MemberCatalogue) + 1
    /\ run = 1
    /\ prevAdded = FALSE
    /\ pc = "add_list"
    /\ nodes = <<>>
    /\ clusterSize = clusterSizeArg
    /\ activeNodes \in RunningVerdicts
    /\ ms = <<>>
    /\ unstarted = 0
    /\ initialURLs = <<>>
    /\ sel = NoSel
    /\ guard = NoGuard
    /\ calls = <<>>
    /\ result = "none"
    /\ errKind = ""
    /\ config = NoConfig
    /\ NoProbes

NextAdd ==
    \/ AddListFails
    \/ AddList
    \/ NoRemoval
    \/ ReplaceStep
    \/ PruneStep
    \/ GuardListFails
    \/ Guard
    \/ AddCallFails
    \/ AddCall
    \/ AddAgain

\* Consecutive Add invocations against one cluster.
SpecAdd == InitAdd /\ [][NextAdd]_vars

\* ------------------------------------------- the heuristic's goroutines
\* clusterExistingHeuristic step by step (join.go:96-141): one goroutine
\* per roster node, the mutex, the accumulator and the WaitGroup.  A
\* goroutine is at "alive", "active", "lock", "read", "write", "unlock",
\* "return" (its deferred wg.Done() is due) or "done".
ProbeNodes ==
    << NewDiscoveryNode("a", "pa").Member,
       NewDiscoveryNode("b", "pb").Member,
       NewDiscoveryNode("c", "pc").Member >>

\* The rosters the goroutines run over: up to MaxRoster of these nodes.
ProbeRosters ==
    { [i \in 1..Cardinality(S) |-> ProbeNodes[SortedSeq(S)[i]]] :
        S \in {T \in SUBSET (DOMAIN ProbeNodes) : Cardinality(T) <= MaxRoster} }

InitHeuristic ==
    /\ strategy = PreparedStrategy
    /\ fresh \in BOOLEAN
    /\ clusterSizeArg \in TargetSizes
    /\ advertisedURLs = <<"n1">>
    /\ cluster = <<>>
    /\ nextID = Len(MemberCatalogue) + 1
    /\ run = 1
    /\ prevAdded = FALSE
    /\ pc = "heuristic"
    /\ nodes \in ProbeRosters
    /\ clusterSize = clusterSizeArg
    /\ activeNodes = NilNodes
    /\ ms = <<>>
    /\ unstarted = 0
    /\ initialURLs = <<>>
    /\ sel = NoSel
    /\ guard = NoGuard
    /\ calls = <<>>
    /\ result = "none"
    /\ errKind = ""
    /\ config = NoConfig
    /\ gpc = [i \in DOMAIN nodes |-> "alive"]
    /\ probeOK = [i \in DOMAIN nodes |-> FALSE]
    /\ lock = 0
    /\ acc = <<>>
    /\ tmp = [i \in DOMAIN nodes |-> <<>>]
    /\ wg = Len(nodes)

ProbeFrame ==
    UNCHANGED <<inputs, cluster, nextID, run, nodes, clusterSize,
                ms, unstarted, initialURLs, sel, guard, calls, result, errKind, config>>

\* join.go:103-106
GoAlive(i) ==
    /\ gpc[i] = "alive"
    /\ \E h \in SnapshotsOver(URLsOf(<<nodes[i]>>)) :
         gpc' = [gpc EXCEPT ![i] = IF alive(h, nodes[i]) THEN "active" ELSE "return"]
    /\ UNCHANGED <<pc, activeNodes, probeOK, lock, acc, tmp, wg>>
    /\ ProbeFrame

\* join.go:107-114
GoActive(i) ==
    /\ gpc[i] = "active"
    /\ \E h \in SnapshotsOver(URLsOf(<<nodes[i]>>)) :
         LET ok == active(h, nodes[i]).isActive
         IN  /\ gpc' = [gpc EXCEPT ![i] = IF ok THEN "lock" ELSE "return"]
             /\ probeOK' = [probeOK EXCEPT ![i] = ok]
    /\ UNCHANGED <<pc, activeNodes, lock, acc, tmp, wg>>
    /\ ProbeFrame

\* a mutex that never blocks
MutexFree_Always(holder) == TRUE

\* join.go:98 and 115: lock.Lock() returns only while no goroutine holds
\* the mutex
MutexFree(holder) == holder = 0

GoLock(i) ==
    /\ gpc[i] = "lock"
    /\ MutexFree(lock)
    /\ lock' = i
    /\ gpc' = [gpc EXCEPT ![i] = "read"]
    /\ UNCHANGED <<pc, activeNodes, probeOK, acc, tmp, wg>>
    /\ ProbeFrame

\* join.go:117, append reads the slice ...
GoRead(i) ==
    /\ gpc[i] = "read"
    /\ tmp' = [tmp EXCEPT ![i] = acc]
    /\ gpc' = [gpc EXCEPT ![i] = "write"]
    /\ UNCHANGED <<pc, activeNodes, probeOK, lock, acc, wg>>
    /\ ProbeFrame

\* ... and the assignment stores the extended slice
GoWrite(i) ==
    /\ gpc[i] = "write"
    /\ acc' = Append(tmp[i], nodes[i])
    /\ gpc' = [gpc EXCEPT ![i] = "unlock"]
    /\ UNCHANGED <<pc, activeNodes, probeOK, lock, tmp, wg>>
    /\ ProbeFrame

\* join.go:116, the deferred lock.Unlock()
GoUnlock(i) ==
    /\ gpc[i] = "unlock"
    /\ lock' = 0
    /\ gpc' = [gpc EXCEPT ![i] = "return"]
    /\ UNCHANGED <<pc, activeNodes, probeOK, acc, tmp, wg>>
    /\ ProbeFrame

\* join.go:102, the deferred wg.Done()
GoDone(i) ==
    /\ gpc[i] = "return"
    /\ wg' = wg - 1
    /\ gpc' = [gpc EXCEPT ![i] = "done"]
    /\ UNCHANGED <<pc, activeNodes, probeOK, lock, acc, tmp>>
    /\ ProbeFrame

\* the classification does not wait for the goroutines
WaitGroupDone_NoWait(counter) == TRUE

\* join.go:120: wg.Wait() returns when the counter is zero
WaitGroupDone(counter) == counter = 0

\* join.go:120-140: wait, then classify
Classify ==
    /\ pc = "heuristic"
    /\ WaitGroupDone(wg)
    /\ activeNodes' = clusterExistingHeuristic(clusterSize, nodes, acc)
    /\ pc' = "dispatch"
    /\ UNCHANGED probes
    /\ ProbeFrame

ProbeAlive  == \E i \in DOMAIN gpc : GoAlive(i)
ProbeActive == \E i \in DOMAIN gpc : GoActive(i)
AppendLock  == \E i \in DOMAIN gpc : GoLock(i)
AppendRead  == \E i \in DOMAIN gpc : GoRead(i)
AppendWrite == \E i \in DOMAIN gpc : GoWrite(i)
AppendUnlock == \E i \in DOMAIN gpc : GoUnlock(i)
ProbeReturn == \E i \in DOMAIN gpc : GoDone(i)

NextHeuristic ==
    \/ ProbeAlive
    \/ ProbeActive
    \/ AppendLock
    \/ AppendRead
    \/ AppendWrite
    \/ AppendUnlock
    \/ ProbeReturn
    \/ Classify

\* One call of clusterExistingHeuristic with its goroutines interleaved.
SpecHeuristic == InitHeuristic /\ [][NextHeuristic]_vars

\* ------------------------------------------------------------------ claims
AddCalls    == {k \in DOMAIN calls : calls[k].op = "add"}
RemoveCalls == {k \in DOMAIN calls : calls[k].op = "remove"}

\* C1: a members-API add call is issued only after the quorum guard of the
\* same Add invocation has passed; the guard's list is taken after every
\* remove of the invocation, no remove lies between the guard and the add,
\* and after a failed guard no add call is issued.
C1_AddOnlyAfterGuard ==
    /\ \A k \in AddCalls :
         /\ k > 1
         /\ calls[k - 1].by = "protectQuorum"
         /\ calls[k - 1].op = "list"
         /\ calls[k - 1].ok
         /\ guard.done
         /\ guard.passed
         /\ \A j \in RemoveCalls : j < k - 1
    /\ (guard.done /\ ~guard.passed) => AddCalls = {}

\* C1, its case: an add call issued after a remove call of the same invocation.
C1_Witness ==
    /\ AddCalls # {}
    /\ RemoveCalls # {}
    /\ pc = "done"

C3_Original ==
    (strategy = AddStrategy /\ AddCalls # {}) => Len(ms) < clusterSize

\* C4: under the replace strategy, when the selection finds no dead member,
\* Add fails for that reason only if the listed membership has targetSize
\* members or more; with fewer members Add goes on to the quorum guard.
C4_Original ==
    (/\ strategy = ReplaceStrategy
     /\ unstarted = 0
     /\ sel.done
     /\ sel.idx = 0
     /\ pc = "done") =>
        /\ (result = "error" /\ errKind \in {"NoDeadMember", "ClusterFullNoDead"})
              => Len(ms) >= clusterSize
        /\ Len(ms) < clusterSize
              => \E k \in DOMAIN calls : calls[k].by = "protectQuorum"

\* C5: under the replace strategy a remove call is issued only if the
\* listed membership has targetSize members or more.
C5_Original ==
    (strategy = ReplaceStrategy /\ RemoveCalls # {}) => Len(ms) >= clusterSize

\* C6: under the prune strategy consecutive remove calls of one Add
\* invocation target distinct member IDs, and when the remove loop has ended
\* without a members-API error no dead member remains in the membership.
C6_Original ==
    strategy = PruneStrategy =>
        /\ \A k \in RemoveCalls :
             (k + 1) \in RemoveCalls => calls[k].id # calls[k + 1].id
        /\ (/\ sel.done
            /\ pc # "strategy"
            /\ \A k \in RemoveCalls : calls[k].ok) =>
               \A i \in DOMAIN cluster :
                   cluster[i].ID \in IDs(ms) => ~IsDead(sel.h, cluster[i])

\* C7: a run of Join with strategy prepared, or with fresh = false, issues
\* no members-API add or remove call; on a running verdict the only entry
\* of initialCluster that carries the node's name is the first one, the
\* node's first advertised peer URL.
C7_NoMutationWithoutAdder ==
    (strategy = PreparedStrategy \/ ~fresh) =>
        /\ AddCalls = {}
        /\ RemoveCalls = {}
        /\ (result = "config" /\ ~activeNodes.isNil /\ Len(activeNodes.list) > 0) =>
             /\ config.InitialClusterState = "existing"
             /\ Len(config.InitialCluster) >= 1
             /\ config.InitialCluster[1] = <<OwnName, advertisedURLs[1]>>
             /\ \A i \in 2..Len(config.InitialCluster) :
                    config.InitialCluster[i][1] # OwnName

\* C7, its case: a fresh node joins a running cluster under prepared.
C7_Witness ==
    /\ strategy = PreparedStrategy
    /\ fresh
    /\ result = "config"
    /\ config.InitialClusterState = "existing"
    /\ Len(config.InitialCluster) > 1
    /\ Len(advertisedURLs) > 1

\* C8: one Add invocation issues no remove call under add and at most one
\* under replace.
C8_RemovesBoundedByStrategy ==
    /\ strategy = AddStrategy => RemoveCalls = {}
    /\ strategy = ReplaceStrategy => Cardinality(RemoveCalls) <= 1

\* C8, its case: replace has removed one member and added the node.
C8_Witness ==
    /\ strategy = ReplaceStrategy
    /\ Cardinality(RemoveCalls) = 1
    /\ AddCalls # {}
    /\ result = "config"

\* C9: if the listed membership holds an unstarted member whose peer URLs
\* are a subset of the caller's, Add issues no add and no remove call and,
\* when it returns without error, has run the quorum guard and returns the
\* peer URLs of the first such member; a run that follows a run which added
\* the node issues no add and no remove call.
C9_RecycleIssuesNoMutation ==
    LET M == {i \in DOMAIN ms :
                /\ ms[i].Name = ""
                /\ Range(ms[i].PeerURLs) \subseteq Range(advertisedURLs)}
    IN  /\ M # {} =>
             /\ AddCalls = {}
             /\ RemoveCalls = {}
             /\ result = "config" =>
                  /\ guard.done
                  /\ guard.passed
                  /\ initialURLs = ms[Min(M)].PeerURLs
        /\ (run > 1 /\ prevAdded) =>
             /\ AddCalls = {}
             /\ RemoveCalls = {}

\* C9, its case: the run after a successful add has listed the members and
\* returned the peer URL the first run registered.
C9_Witness ==
    /\ run > 1
    /\ prevAdded
    /\ result = "config"
    /\ initialURLs = <<advertisedURLs[1]>>

\* C10: every config with state "existing" has an empty discovery field and
\* an initialCluster that is empty or begins with a named URL carrying the
\* node's own name.
C10_Original ==
    (result = "config" /\ config.InitialClusterState = "existing") =>
        /\ config.Discovery = ""
        /\ \/ config.InitialCluster = <<>>
           \/ config.InitialCluster[1][1] = OwnName

\* C11: Join's output follows the heuristic's verdict and the fresh flag.
\* A nil verdict (absent) gives a config with state "new", the discovery
\* URL and an empty initialCluster; an empty non-nil verdict (dormant, which
\* only a roster of exactly size nodes produces) gives the error
\* ClusterDownNotJoinable and no config if fresh, and otherwise a config
\* with state "existing", an empty initialCluster and an empty discovery
\* field.  None of the three issues a members-API call.
C11_OutputByVerdict ==
    [][pc = "dispatch" =>
        LET dormant == ~activeNodes.isNil /\ Len(activeNodes.list) = 0
        IN  /\ activeNodes.isNil =>
                 /\ result' = "config"
                 /\ config'.InitialClusterState = "new"
                 /\ config'.Discovery = DiscoveryURL
                 /\ config'.InitialCluster = <<>>
                 /\ calls' = <<>>
            /\ dormant => Len(nodes) = clusterSize
            /\ (dormant /\ fresh) =>
                 /\ result' = "error"
                 /\ errKind' = "ClusterDownNotJoinable"
                 /\ config' = NoConfig
                 /\ calls' = <<>>
            /\ (dormant /\ ~fresh) =>
                 /\ result' = "config"
                 /\ config'.InitialClusterState = "existing"
                 /\ config'.InitialCluster = <<>>
                 /\ config'.Discovery = ""
                 /\ calls' = <<>>
    ]_vars

\* C11, its case: a fresh node has met a dormant cluster with a full roster.
C11_Witness ==
    /\ fresh
    /\ result = "error"
    /\ errKind = "ClusterDownNotJoinable"
    /\ Len(nodes) = clusterSize
    /\ Len(nodes) > 0

\* The ordered edge policy of the Existence Heuristic, written from its
\* statement: whether the verdict is absent, and the healthy nodes it lists.
C12_EdgePolicy(size, roster, h) ==
    LET healthy == {roster[i] : i \in {j \in DOMAIN roster :
                       alive(h, roster[j]) /\ active(h, roster[j]).isActive}}
        absent  == [absent |-> TRUE, healthy |-> {}]
        listed  == [absent |-> FALSE, healthy |-> healthy]
    IN  IF Len(roster) = 0 \/ Len(roster) < (size \div 2) + 1 THEN absent
        ELSE IF Len(roster) = size THEN listed
        ELSE IF healthy # {} THEN listed
        ELSE absent

\* C12: for every target size >= 1, every roster and every health
\* assignment the heuristic returns the verdict of the ordered edge policy:
\* nil exactly when the policy says absent, and otherwise a list that holds
\* exactly the healthy nodes; a roster of size-1 nodes without a healthy
\* node is classified absent, and on an absent verdict Join emits state
\* "new".
C12_HeuristicIsEdgePolicy ==
    /\ [](  (pc = "heuristic" /\ clusterSize >= 1) =>
              \A h \in SnapshotsOver(URLsOf(nodes)) :
                \A act \in ActiveOrders(h, nodes) :
                  LET v == clusterExistingHeuristic(clusterSize, nodes, act)
                      p == C12_EdgePolicy(clusterSize, nodes, h)
                  IN  /\ v.isNil <=> p.absent
                      /\ ~v.isNil =>
                            /\ Range(v.list) = p.healthy
                            /\ Len(v.list) = Cardinality(p.healthy)
                      /\ (Len(nodes) = clusterSize - 1 /\ p.healthy = {}) => v.isNil )
    /\ [][(pc = "dispatch" /\ activeNodes.isNil) =>
             (result' = "config" /\ config'.InitialClusterState = "new")]_vars

\* C12, its case: a roster of size-1 nodes that reaches the quorum was
\* classified absent and Join has emitted state "new".
C12_Witness ==
    /\ result = "config"
    /\ config.InitialClusterState = "new"
    /\ Len(nodes) = clusterSize - 1
    /\ Len(nodes) >= Quorum(clusterSize)
    /\ Len(nodes) > 0

\* C13 as stated: whenever the roster has at least a quorum (size/2 + 1)
\* of nodes and no node is healthy, the heuristic returns a non-nil empty
\* list (target sizes >= 1).
C13_Original ==
    (pc = "heuristic" /\ clusterSize >= 1) =>
        \A h \in SnapshotsOver(URLsOf(nodes)) :
          \A act \in ActiveOrders(h, nodes) :
            (Len(nodes) >= (clusterSize \div 2) + 1 /\ act = <<>>) =>
                clusterExistingHeuristic(clusterSize, nodes, act) = Nodes(<<>>)

\* C13 as amended: for a target size >= 1 and a roster without a healthy
\* node the heuristic returns a non-nil empty list exactly when the roster
\* has size nodes, and nil for every other roster, those that reach the
\* quorum included; on a non-nil empty verdict Join returns an error if
\* fresh and a config with state "existing" otherwise, never state "new".
C13_DormantOnlyWhenFull ==
    /\ [](  (pc = "heuristic" /\ clusterSize >= 1) =>
              \A h \in SnapshotsOver(URLsOf(nodes)) :
                \A act \in ActiveOrders(h, nodes) :
                  act = <<>> =>
                    LET v == clusterExistingHeuristic(clusterSize, nodes, act)
                    IN  /\ Len(nodes) = clusterSize => v = Nodes(<<>>)
                        /\ Len(nodes) # clusterSize => v = NilNodes )
    /\ [][(pc = "dispatch" /\ ~activeNodes.isNil /\ Len(activeNodes.list) = 0) =>
             /\ fresh => (result' = "error" /\ errKind' = "ClusterDownNotJoinable")
             /\ ~fresh => (result' = "config"
                             /\ config'.InitialClusterState = "existing")]_vars

\* C13, its case: a restarting node has resumed a dormant cluster whose
\* roster is full.
C13_Witness ==
    /\ ~fresh
    /\ result = "config"
    /\ config.InitialClusterState = "existing"
    /\ config.InitialCluster = <<>>
    /\ Len(nodes) = clusterSize
    /\ Len(nodes) > 0

\* Members with up to two peer URLs, for the selection test of one member.
C14_Members ==
    LET U == HostURLs \cup {BadURL}
    IN  {Member(9, "m", p, <<>>) :
            p \in {<<>>} \cup {<<u>> : u \in U} \cup {<<u, w>> : u \in U, w \in U}}

\* The peer URL u of member m probed alive and active.
C14_ProbedHealthy(h, m, u) ==
    LET n == NewDiscoveryNode(m.Name, u)
    IN  n.ok /\ Probe(h, u) = "healthy"

C14_ParseFails(m, u) == ~NewDiscoveryNode(m.Name, u).ok

\* What the claim allows to be removed.
C14_Removable(h, m) ==
    \/ Len(m.PeerURLs) = 0
    \/ \A k \in DOMAIN m.PeerURLs :
           /\ ~C14_ProbedHealthy(h, m, m.PeerURLs[k])
           /\ ~C14_ParseFails(m, m.PeerURLs[k])

\* C14: a members-API remove call is issued only for a listed member that
\* has no peer URL or of which no peer URL probed alive and active during
\* the selection; a member of which a peer URL probed alive and active or
\* failed to parse is not removed.  The same holds of the selection test
\* for every member with up to two peer URLs.
C14_NeverRemovesHealthy ==
    /\ \A k \in RemoveCalls :
         /\ sel.done
         /\ sel.idx # 0
         /\ calls[k].id = ms[sel.idx].ID
         /\ C14_Removable(sel.h, ms[sel.idx])
    /\ pc = "strategy" =>
         \A m \in C14_Members :
           \A h \in SnapshotsOver(Range(m.PeerURLs)) :
              IsDead(h, m) => C14_Removable(h, m)

\* C14, its case: a dead member with a peer URL was removed from a cluster
\* in which another member probed alive and active.
C14_Witness ==
    /\ RemoveCalls # {}
    /\ sel.idx > 1
    /\ Len(ms[sel.idx].PeerURLs) > 0
    /\ \E i \in 1..(sel.idx - 1) :
          /\ Len(ms[i].PeerURLs) > 0
          /\ C14_ProbedHealthy(sel.h, ms[i], ms[i].PeerURLs[1])
    /\ \E k \in RemoveCalls : calls[k].ok

\* A member that has peer URLs, all of which parse and none of which probed
\* alive and active; a failed probe counts as not healthy.
C15_DeadAsStated(h, m) ==
    /\ Len(m.PeerURLs) > 0
    /\ \A k \in DOMAIN m.PeerURLs :
          /\ NewDiscoveryNode(m.Name, m.PeerURLs[k]).ok
          /\ Probe(h, m.PeerURLs[k]) # "healthy"

\* C15: a member the selection has probed, with peer URLs that all parse
\* and of which none probed alive and active, is selected unless a member
\* before it in list order is, an error of the activity probe on a live
\* peer URL included; the selected member is the one the remove call names.
C15_Original ==
    sel.done =>
        /\ \A i \in DOMAIN Probed(sel.idx) :
              C15_DeadAsStated(sel.h, ms[i]) => (sel.idx # 0 /\ sel.idx <= i)
        /\ \A k \in RemoveCalls : sel.idx # 0 /\ calls[k].id = ms[sel.idx].ID

\* C16: whenever the listed membership holds a member without peer URLs,
\* the member the selection chooses, and the remove call names, is one
\* without peer URLs.
C16_Original ==
    (/\ sel.done
     /\ \E i \in DOMAIN ms : Len(ms[i].PeerURLs) = 0) =>
        /\ sel.idx # 0
        /\ Len(ms[sel.idx].PeerURLs) = 0
        /\ \A k \in RemoveCalls :
              \E i \in DOMAIN ms :
                 ms[i].ID = calls[k].id /\ Len(ms[i].PeerURLs) = 0

\* C17: when Add fails because the quorum guard fails, no remove call has
\* taken effect before the failure and the membership of the cluster is the
\* one listed at the start of that Add invocation.
C17_Original ==
    (result = "error" /\ errKind = "QuorumAtRisk") =>
        /\ \A k \in RemoveCalls : ~calls[k].ok
        /\ cluster = ms

\* C18: no child of the discovery prefix makes Join crash: a child without
\* a value or with a value that does not parse is skipped.
C18_Original == result # "panic"

\* C19: the heuristic classifies only after every goroutine has finished,
\* and the accumulator it classifies holds exactly the roster nodes whose
\* goroutine found them alive and active, each once; the verdict is the
\* classification of that accumulator.
C19_AllProbesJoined ==
    pc = "dispatch" =>
        /\ \A i \in DOMAIN gpc : gpc[i] = "done"
        /\ Range(acc) = {nodes[i] : i \in {j \in DOMAIN nodes : probeOK[j]}}
        /\ Len(acc) = Cardinality({j \in DOMAIN nodes : probeOK[j]})
        /\ activeNodes = clusterExistingHeuristic(clusterSize, nodes, acc)

\* C19, its case: three goroutines have appended in an order that is not
\* the order of the roster.
C19_Witness ==
    /\ pc = "dispatch"
    /\ Len(acc) = 3
    /\ acc[1] = nodes[3]
    /\ acc[3] = nodes[1]

\* C20: if every discovery read, health probe and members-API call
\* returns, every run of Join ends, and it ends with a config or an error:
\* a run that has ended has returned one of the two.
C20_Original == pc = "done" => result \in {"config", "error"}

\* Every run of Join ends (with a config, an error or a crash), and the
\* remove loop of prune is left whenever it is entered.
JoinEnds == <>(pc = "done")

C22_SingleMemberNeverGrows ==
    /\ (Len(ms) = 1 /\ ms[1].Name # "") =>
          /\ AddCalls = {}
          /\ guard.done => ~guard.passed
    /\ (guard.done /\ guard.members = 1 /\ guard.started = 1) =>
          /\ guard.futureQuorum = 2
          /\ ~guard.passed
          /\ AddCalls = {}
    /\ (guard.done /\ guard.members = guard.started /\ guard.healthy = guard.started) =>
          (guard.passed <=> guard.started >= 2)

\* C22, its case: the guard has failed on one started member that is
\* healthy.
C22_Witness ==
    /\ guard.done
    /\ guard.members = 1
    /\ guard.started = 1
    /\ guard.healthy = 1
    /\ result = "error"
    /\ errKind = "QuorumAtRisk"

====
